---- MODULE Spec2Model ----
(***************************************************************************)
(* GesonelBot: question answering over a local document corpus.            *)
(*                                                                         *)
(* The model covers the question path of gesonelbot/core:                  *)
(*   qa_engine.answer_question       (the orchestrator, main thread)       *)
(*   qa_engine.generate_response_with_timeout (thread + queue + deadline)  *)
(*   llm_manager.LLMManager          (lazy load, fallback, generation)     *)
(*   retriever.DocumentRetriever     (lazy initialisation, search)         *)
(*   embeddings_manager.EmbeddingsManager.get_vector_store / load          *)
(*                                                                         *)
(* One question is answered at a time by the main thread; every question   *)
(* that reaches generation starts one daemon worker thread, which keeps    *)
(* running after the main thread has given up on it.                       *)
(***************************************************************************)
EXTENDS Integers, Sequences, FiniteSets, TLC

(***************************************************************************)
(* Bounds of the model.                                                    *)
(***************************************************************************)
\* number of answer_question calls of one run (one worker thread per call)
MaxQuestions == 2
\* length of a question, in tokens
MaxQuestionLen == 2
\* ticks of the clock that make up the generation deadline
TimeoutTicks == 1
\* number of chunks in the persisted index
MaxIndex == 2
\* number of chunks the longest document is split into
MaxChunks == 2
\* number of paths in the list of one ingest_documents call
MaxBatch == 2
\* number of ingest_documents (or direct add_documents) calls of one run
MaxRuns == 2
\* number of chunks in the scored index of a ranked search
MaxScored == 5
\* number of relevance levels of a chunk
MaxScore == 3
\* number of reload_settings calls of one run
MaxReloads == 2

(***************************************************************************)
(* Program constants.                                                      *)
(***************************************************************************)
\* settings.RETRIEVER_K: number of documents the retriever returns
RETRIEVER_K == 4

\* the value of a missing top_k argument (top_k=None)
NoTopK == 99

Workers == 1..MaxQuestions

(***************************************************************************)
(* Questions are sequences of tokens: a blank, a dot or a word. Adjacent   *)
(* word tokens form one longer word (no word boundary between them).       *)
(***************************************************************************)
Tokens == {" ", ".", "OI", "bom", "dia"}

\* str.lower() on a token
Lower(t) == IF t = "OI" THEN "oi" ELSE t

IsSpace(t) == t = " "

IsWordTok(t) == t \notin {" ", "."}

RECURSIVE LStrip(_)
\* str.lstrip(): drop the leading blanks
LStrip(s) == IF s # <<>> /\ IsSpace(Head(s)) THEN LStrip(Tail(s)) ELSE s

RECURSIVE RStrip(_)
\* str.rstrip(): drop the trailing blanks
RStrip(s) ==
    IF s # <<>> /\ IsSpace(s[Len(s)]) THEN RStrip(SubSeq(s, 1, Len(s) - 1)) ELSE s

\* str.strip()
Strip(s) == RStrip(LStrip(s))

\* text.lower(), token by token
LowerText(s) == [i \in 1..Len(s) |-> Lower(s[i])]

\* \b before position i: a word token whose left neighbour is not one
BoundaryBefore(s, i) == IsWordTok(s[i]) /\ (i = 1 \/ ~IsWordTok(s[i - 1]))

\* \b after position i: a word token whose right neighbour is not one
BoundaryAfter(s, i) == IsWordTok(s[i]) /\ (i = Len(s) \/ ~IsWordTok(s[i + 1]))

\* the words of GREETING_PATTERNS[0] (the two-word "e aí" is WordPairs-like)
GreetingWords == {"olá", "ola", "oi", "hello", "hi", "hey"}

\* the word pairs a\s*b of GREETING_PATTERNS[1] and [2], and "e aí"
GreetingPairs ==
    { <<"bom", "dia">>, <<"boa", "tarde">>, <<"boa", "noite">>,
      <<"tudo", "bem">>, <<"como", "vai">>, <<"como", "está">> }

\* re.search(r'\b(?:olá|ola|oi|e aí|hello|hi|hey)\b', text)
MatchWord(s) ==
    \/ \E i \in 1..Len(s) :
          s[i] \in GreetingWords /\ BoundaryBefore(s, i) /\ BoundaryAfter(s, i)
    \/ \E i \in 1..Len(s) : \E j \in (i + 1)..Len(s) :
          /\ j = i + 2
          /\ s[i] = "e" /\ s[i + 1] = " " /\ s[j] = "aí"
          /\ BoundaryBefore(s, i) /\ BoundaryAfter(s, j)

\* re.search(r'\b(?:a\s*b|...)\b', text): a, any number of blanks, b
MatchPair(s) ==
    \E i \in 1..Len(s) : \E j \in (i + 1)..Len(s) :
        /\ <<s[i], s[j]>> \in GreetingPairs
        /\ \A k \in (i + 1)..(j - 1) : IsSpace(s[k])
        /\ BoundaryBefore(s, i) /\ BoundaryAfter(s, j)

\* re.search(r'^(?:\.+|oi|hey)$', text)
MatchWhole(s) ==
    \/ s # <<>> /\ \A i \in 1..Len(s) : s[i] = "."
    \/ s \in {<<"oi">>, <<"hey">>}

\* is_greeting(text): the text, lowered and stripped, matches a pattern
is_greeting(text) ==
    LET t == Strip(LowerText(text))
    IN  MatchWord(t) \/ MatchPair(t) \/ MatchWhole(t)


(***************************************************************************)
(* State.                                                                  *)
(***************************************************************************)
VARIABLES
    MODEL_TYPE,      \* settings.MODEL_TYPE, the configured backend kind
    OPENAI_API_KEY,  \* settings.OPENAI_API_KEY is set
    model_type,      \* LLMManager.model_type
    current_model,   \* LLMManager.current_model: "None" or the kind of the backend object
    model_info,      \* LLMManager.model_info
    reload,          \* the reload_settings call in progress: its position and locals
    worker,          \* the generation threads, one per answer_question call
    result_queue,    \* the result_queue of each generate_response_with_timeout call
    persisted,       \* the chunks persisted under VECTORSTORE_DIR
    vector_store,    \* EmbeddingsManager.vector_store is set
    retriever,       \* DocumentRetriever.retriever is set
    pc,              \* where the main thread is in answer_question
    qn,              \* number of answer_question calls made so far
    question,        \* answer_question's argument question
    top_k,           \* answer_question's argument top_k
    retrieved_docs,  \* answer_question's local retrieved_docs
    searched,        \* document_retriever.search in the current call: "no", "returned", "raised"
    found,           \* what document_retriever.search returned (retrieved_docs at line 205)
    raised,          \* the exception the current call caught in its except clause
    answer,          \* answer_question's local answer (the generated text)
    clock,           \* ticks waited in result_queue.get(timeout=timeout)
    result,          \* the dictionary answer_question returned
    unflushed,       \* chunks added to the Chroma collection in memory, not yet persisted
    ing,             \* the ingest_documents call in progress: its position and locals
    report,          \* the dictionary the last ingest_documents call returned
    hist,            \* what the add_documents calls so far did (for the properties)
    validation,      \* a validate_file call: its argument and what it returned
    ranking          \* a DocumentRetriever.search call over a scored index

vars ==
    << MODEL_TYPE, OPENAI_API_KEY, model_type, current_model, model_info, reload,
       worker, result_queue, persisted, vector_store, retriever, pc, qn, question, top_k,
       retrieved_docs, searched, found, raised, answer, clock, result, unflushed,
       ing, report, hist, validation, ranking >>

\* the state of document ingestion, of validate_file and of a scored search
ingestionVars == << unflushed, ing, report, hist, validation, ranking >>

llmVars == << MODEL_TYPE, OPENAI_API_KEY, model_type, current_model, model_info, reload >>

indexVars == << persisted, vector_store, retriever >>

\* the kinds MODEL_TYPE is configured with; "outro" is an unsupported kind
ModelTypes == {"openai", "local", "outro"}

\* LLMManager.model_info = {}
EmptyInfo == [type |-> "unknown", name |-> "unknown"]

\* the values settings.OPENAI_MODEL can have: the one llm_manager imported
\* when the process started, and another one
OpenAIModels == {"OPENAI_MODEL", "outro modelo"}

\* no reload_settings call made. pc: the position of the call, MODEL_TYPE /
\* OPENAI_MODEL: its local names of that kind (lines 148-151), kind: the
\* backend kind its load_model call dispatched to, phase: 1 in the branch of
\* line 155, 2 in that of line 167, n: the calls so far; for the
\* properties: before: the manager when the call began, loads: the backends
\* its load_model calls tried to load, unloaded: it has set current_model
\* to None
NoReload ==
    [pc |-> "idle", MODEL_TYPE |-> "None", OPENAI_MODEL |-> "None", kind |-> "None",
     phase |-> 1, n |-> 0,
     before |-> [model_type |-> "None", current_model |-> "None", model_info |-> EmptyInfo],
     loads |-> <<>>, unloaded |-> FALSE]

\* the model_info dictionary _load_openai_model / _load_local_model build
InfoOf(kind) ==
    IF kind = "openai"
    THEN [type |-> "openai", name |-> "OPENAI_MODEL"]
    ELSE [type |-> "local", name |-> "basename(LOCAL_MODEL_PATH)"]

\* a text that is no generation result; by = 0: produced by no worker
Text(t) == [text |-> t, by |-> 0]

\* a text produced by the worker of question w
TextBy(t, w) == [text |-> t, by |-> w]

NoText == Text("")

\* "Desculpe, a geracao da resposta esta demorando muito tempo. ..."
TimeoutMessage == Text("timeout")

\* "Por favor, faca uma pergunta valida."
EmptyQuestionMessage == Text("pergunta valida")

\* "Nao encontrei informacoes relevantes ..."
NoInformationMessage == Text("sem informacoes")

\* GREETING_RESPONSES
GREETING_RESPONSES == { Text("saudacao 1"), Text("saudacao 2"), Text("saudacao 3"), Text("saudacao 4") }

\* the exceptions that reach the except clause of answer_question
Exceptions == {"as_retriever", "strip", "thread.start"}

\* f"Ocorreu um erro ao processar sua pergunta: {str(e)}"
ProcessingError(e) == Text("Ocorreu um erro: " \o e)

NoModelInfo == [status |-> "", type |-> "", name |-> ""]

NoResult ==
    [question |-> <<>>, answer |-> NoText, sources |-> <<>>, retrieved_documents |-> 0 - 1,
     error |-> "", model_info |-> NoModelInfo]

\* the dictionary answer_question returns
Answer(q, a, src, n, e, info) ==
    [question |-> q, answer |-> a, sources |-> src, retrieved_documents |-> n,
     error |-> e, model_info |-> info]

\* a worker thread: pc is its position, kind the backend kind it is loading,
\* attempt the number of load_model calls it made, backend the outcome of its
\* backend call, request what it sent to the backend
Idle == [pc |-> "unborn", kind |-> "None", attempt |-> 0, backend |-> "", request |-> {}]

Min(a, b) == IF a < b THEN a ELSE b

Max(a, b) == IF a > b THEN a ELSE b

(***************************************************************************)
(* Retrieval: DocumentRetriever.search over the persisted index.           *)
(***************************************************************************)
\* the index contents of the initial states: chunks 1..m, or none (no index)
Indexes == { [i \in 1..m |-> i] : m \in 0..MaxIndex }

\* the ranked lists a query can yield: at most RETRIEVER_K distinct chunks of
\* the index, in the order of the index's ranking (any order, any subset:
\* the ranking depends on the query, the threshold mode drops chunks)
Ranked(idx) ==
    LET n == Min(RETRIEVER_K, Len(idx))
        S == { idx[i] : i \in 1..Len(idx) }
    IN  { r \in UNION { [1..m -> S] : m \in 0..n } :
            \A i, j \in 1..Len(r) : i # j => r[i] # r[j] }

\* a get_vector_store that reads the directory again at every call
get_vector_store_reload ==
    IF persisted = <<>> THEN {FALSE} ELSE {TRUE, FALSE}

\* EmbeddingsManager.get_vector_store: the store in memory, or the outcomes
\* of load_vector_store (None for a missing or empty directory, None when
\* Chroma raises, the store otherwise); TRUE: a store is returned and kept
get_vector_store ==
    IF vector_store THEN {TRUE}
    ELSE IF persisted = <<>> THEN {FALSE}
    ELSE {TRUE, FALSE}

\* get_relevant_documents without its try / except: the exception of the
\* retriever leaves it
RetrievedUnhandled(idx) ==
    { [exc |-> "", docs |-> d, retrieval |-> "returned"] : d \in Ranked(idx) }
    \cup { [exc |-> "get_relevant_documents", docs |-> <<>>, retrieval |-> "raised"] }

\* get_relevant_documents, lines 105-112: the retriever returns a ranked
\* list, or raises and the except clause returns []
Retrieved(idx) ==
    { [exc |-> "", docs |-> d, retrieval |-> "returned"] : d \in Ranked(idx) }
    \cup { [exc |-> "", docs |-> <<>>, retrieval |-> "raised"] }

\* DocumentRetriever.search: its outcomes in the current state.
\*   exc: the exception that escapes it ("" for none), docs: the formatted
\*   documents, vs / ret: vector_store and retriever afterwards,
\*   lazy: _initialize_retriever was called (line 99), retrieval: what the
\*   retriever did ("none": it was not called)
search ==
    IF retriever
    THEN { [exc |-> r.exc, docs |-> r.docs, vs |-> vector_store, ret |-> TRUE,
            lazy |-> FALSE, retrieval |-> r.retrieval] : r \in Retrieved(persisted) }
    ELSE UNION { IF ~got
                 THEN { [exc |-> "", docs |-> <<>>, vs |-> FALSE, ret |-> FALSE,
                         lazy |-> TRUE, retrieval |-> "none"] }
                 ELSE { [exc |-> "as_retriever", docs |-> <<>>, vs |-> TRUE, ret |-> FALSE,
                         lazy |-> TRUE, retrieval |-> "none"] }
                      \cup { [exc |-> r.exc, docs |-> r.docs, vs |-> TRUE, ret |-> TRUE,
                               lazy |-> TRUE, retrieval |-> r.retrieval] :
                               r \in Retrieved(persisted) }
               : got \in get_vector_store }

\* the values of answer_question's top_k argument
TopKs == {NoTopK, 0, 1, 0 - 1}

\* retrieved_docs[:top_k]
Slice(docs, k) ==
    IF k = NoTopK THEN docs
    ELSE IF k >= 0 THEN SubSeq(docs, 1, Min(k, Len(docs)))
    ELSE SubSeq(docs, 1, Max(Len(docs) + k, 0))

\* the sources list built from the retrieved documents: one entry per document
Sources(docs) == [i \in 1..Len(docs) |-> [file_name |-> docs[i], source |-> docs[i]]]

\* the contexts of the prompt, lines 228-249: one block per document, headed
\* "DOCUMENTO i+1: file_name" for the document at position i of enumerate
Contexts(docs) == [i \in 1..Len(docs) |-> [label |-> i, file_name |-> docs[i]]]

\* the questions answer_question is called with (<<>>: "" or None)
Questions == UNION { [1..m -> Tokens] : m \in 0..MaxQuestionLen }

(***************************************************************************)
(* Files: what validate_file and process_document look at.                 *)
(***************************************************************************)
\* the limit of validate_file, 20MB
MAX_FILE_SIZE == 20 * 1024 * 1024

\* file name extensions: three supported ones, a source file that
\* mimetypes also calls text/plain, an image and no extension
Extensions == {".txt", ".pdf", ".docx", ".c", ".png", ""}

\* mimetypes.guess_type(file_path)[0], which looks at the extension only
guess_type(ext) ==
    CASE ext \in {".txt", ".c"} -> "text/plain"
      [] ext = ".pdf" -> "application/pdf"
      [] ext = ".docx" -> "application/vnd.openxmlformats-officedocument.wordprocessingml.document"
      [] ext = ".png" -> "image/png"
      [] OTHER -> "None"

\* the keys of SUPPORTED_MIME_TYPES
SUPPORTED_MIME_TYPES ==
    { "text/plain", "application/pdf",
      "application/vnd.openxmlformats-officedocument.wordprocessingml.document" }

\* a path: exists / isfile / size as the os.path functions report them,
\* readable: open() succeeds, content: what the extractors meet ("empty": no
\* bytes, "blank": whitespace only, "corrupt": not in the format of the
\* extension, "bracket": a text whose first characters are "[Erro", as in a
\* log excerpt), chunks: the number of chunks its text is split into
File(e, f, s, x, r, c, n) ==
    [exists |-> e, isfile |-> f, size |-> s, ext |-> x, readable |-> r,
     content |-> c, chunks |-> n]

\* the paths validate_file is called with: missing paths, directories and
\* regular files around the size limit
AllFiles ==
    { File(FALSE, FALSE, 0, x, FALSE, "empty", 0) : x \in Extensions }
    \cup { File(TRUE, FALSE, 1, x, FALSE, "empty", 0) : x \in Extensions }
    \cup { File(TRUE, TRUE, 0, x, r, "empty", 0) : x \in Extensions, r \in BOOLEAN }
    \cup UNION { { File(TRUE, TRUE, s, x, r, "blank", 0),
                   File(TRUE, TRUE, s, x, r, "corrupt", 1) }
                 \cup { File(TRUE, TRUE, s, x, r, c, n) :
                           c \in {"text", "bracket"}, n \in 1..MaxChunks }
               : s \in {1, MAX_FILE_SIZE, MAX_FILE_SIZE + 1}, x \in Extensions,
                 r \in BOOLEAN }

\* validate_file with ">=" at line 156
validate_file_ge(f) ==
    IF ~f.exists THEN << FALSE, "Arquivo não encontrado" >>
    ELSE IF ~f.isfile THEN << FALSE, "O caminho especificado não é um arquivo" >>
    ELSE IF f.size >= MAX_FILE_SIZE THEN << FALSE, "Arquivo muito grande (máximo 20MB)" >>
    ELSE IF guess_type(f.ext) \notin SUPPORTED_MIME_TYPES
         THEN << FALSE, "Tipo de arquivo não suportado" >>
    ELSE << TRUE, "Arquivo válido" >>

\* validate_file(file_path): the tuple (is_valid, message)
validate_file(f) ==
    IF ~f.exists THEN << FALSE, "Arquivo não encontrado" >>
    ELSE IF ~f.isfile THEN << FALSE, "O caminho especificado não é um arquivo" >>
    ELSE IF f.size > MAX_FILE_SIZE THEN << FALSE, "Arquivo muito grande (máximo 20MB)" >>
    ELSE IF guess_type(f.ext) \notin SUPPORTED_MIME_TYPES
         THEN << FALSE, "Tipo de arquivo não suportado" >>
    ELSE << TRUE, "Arquivo válido" >>

\* no validate_file call made yet
NotValidated == << FALSE, "" >>

\* the text of a file, as far as it is known here: "" for no text, " "
\* for blank text, "[Erro" for a text that begins with these characters,
\* "texto" for any other text
TextOf(f) ==
    CASE f.content = "empty" -> ""
      [] f.content = "blank" -> " "
      [] f.content = "bracket" -> "[Erro"
      [] OTHER -> "texto"

\* extract_text_from_txt / _docx / _pdf with the docx and pdf libraries
\* available or not (DOCX_AVAILABLE, PDF_AVAILABLE): the text of the file,
\* or the message the docx and pdf extractors return in place of an
\* exception, "[Biblioteca" (lines 83-84, 117-118) and "[Erro" (lines
\* 103-105, 133-135); a text file is decoded whatever its bytes are
\* (latin-1)
extract_text_from(f, available) ==
    IF f.ext = ".txt" THEN TextOf(f)
    ELSE IF ~available THEN "[Biblioteca"
    ELSE IF f.content \in {"empty", "corrupt"} THEN "[Erro"
    ELSE TextOf(f)

\* the extractors with both libraries installed
extract_text(f) == extract_text_from(f, TRUE)

\* process_document(file_path): the dictionary it returns; status "raised"
\* stands for the exception of get_file_metadata (line 217, before the try
\* block), whose open() fails on a file that cannot be read
process_document_from(f, available) ==
    LET v == validate_file(f)
        text == extract_text_from(f, available)
    IN  IF ~v[1] THEN [status |-> "error", message |-> v[2], text |-> ""]
        ELSE IF ~f.readable
             THEN [status |-> "raised", message |-> "PermissionError", text |-> ""]
        ELSE IF f.ext \notin {".txt", ".docx", ".pdf"}
             THEN [status |-> "error", message |-> "Formato não suportado", text |-> ""]
        ELSE IF text \in {"", "[Erro", "[Biblioteca"}
             THEN [status |-> "error", message |-> "Falha na extração de texto", text |-> ""]
        ELSE [status |-> "success", message |-> "Documento processado com sucesso",
              text |-> text]

\* process_document with both libraries installed
process_document(f) == process_document_from(f, TRUE)

\* no process_document call made yet
NotProcessed == [status |-> "no call", message |-> "", text |-> ""]

\* the upload directory of the ingestion runs: a text of one chunk, a pdf
\* of MaxChunks chunks, a blank text, a missing path and a text that cannot
\* be read
Corpus ==
    << File(TRUE, TRUE, 1, ".txt", TRUE, "text", 1),
       File(TRUE, TRUE, 1, ".pdf", TRUE, "text", MaxChunks),
       File(TRUE, TRUE, 1, ".txt", TRUE, "blank", 0),
       File(FALSE, FALSE, 0, ".txt", FALSE, "empty", 0),
       File(TRUE, TRUE, 1, ".txt", FALSE, "text", 1) >>

\* the paths of the corpus
Paths == 1..Len(Corpus)

\* chunk number n of the file at path p (page_content and metadata)
Chunk(p, n) == [file |-> p, n |-> n]

\* a chunk whose page_content is the whole text of the file at path p
Whole(p) == Chunk(p, 0)

\* a splitter whose failure leaves the document without chunks
split_text_dropped(text, p, n, raises) ==
    IF text \in {"", " "} THEN <<>>
    ELSE IF raises THEN <<>>
    ELSE [k \in 1..n |-> Chunk(p, k)]

\* split_text_into_chunks(text, metadata) for a text the splitter cuts into
\* n chunks, with the metadata of path p: no chunk for a blank text (lines
\* 313-315), the chunks of the splitter in the order of the text (lines
\* 317-334), and the one-chunk fallback when the splitter raises (lines
\* 335-339)
split_text(text, p, n, raises) ==
    IF text \in {"", " "} THEN <<>>
    ELSE IF raises THEN << Whole(p) >>
    ELSE [k \in 1..n |-> Chunk(p, k)]

\* split_text_into_chunks for the file at path p of the corpus, with a
\* splitter that works
split_text_into_chunks(text, p) == split_text(text, p, Corpus[p].chunks, FALSE)

\* the results dictionary process_documents starts with (lines 281-286)
EmptyResults ==
    [success_count |-> 0, error_count |-> 0, processed_files |-> <<>>, errors |-> <<>>,
     vectorstore_chunks |-> 0 - 1, vectorstore_error |-> "", raised |-> ""]

\* no ingest_documents call in progress
NoIngest == [pc |-> "idle", paths |-> <<>>, i |-> 1, j |-> 1, results |-> EmptyResults,
             all_chunks |-> <<>>]

\* no ingest_documents call has returned
NoReport == [EmptyResults EXCEPT !.raised = "no call"]

\* no ingest_documents and no add_documents call made. runs: the calls of
\* ingest_documents so far, paths: the file_paths of the last one, adds: the
\* add_documents calls since it began, added / ok: the argument and the
\* result of the last add_documents call, acked: the chunks of the calls
\* that returned True, restarted: the process was restarted since
NoHist == [runs |-> 0, paths |-> <<>>, adds |-> 0, added |-> <<>>, ok |-> FALSE,
           acked |-> <<>>, restarted |-> FALSE]

\* no scored search made
NoRanking ==
    [type |-> "similarity", score |-> <<>>, close |-> {}, result |-> <<>>, done |-> FALSE]

\* the file f before validate_file, process_document and
\* split_text_into_chunks are called on it; available: the docx and pdf
\* libraries are installed; split: "no", or how split_text_into_chunks
\* ended ("blank", "splitter", "fallback"); chunks: what it returned
NoValidation(f, available) ==
    [file |-> f, result |-> NotValidated, available |-> available,
     processed |-> NotProcessed, split |-> "no", chunks |-> <<>>]

\* nothing is ingested, validated or ranked
Quiet ==
    /\ unflushed = <<>>
    /\ ing = NoIngest
    /\ report = NoReport
    /\ hist = NoHist
    /\ validation = NoValidation(Corpus[1], TRUE)
    /\ ranking = NoRanking

(***************************************************************************)
(* Initial state: the modules are imported, llm_manager, embeddings_manager*)
(* and document_retriever are constructed.                                 *)
(***************************************************************************)
Init ==
    /\ MODEL_TYPE \in ModelTypes
    /\ OPENAI_API_KEY \in BOOLEAN
    /\ model_type = MODEL_TYPE
    /\ current_model = "None"
    /\ model_info = EmptyInfo
    /\ reload = NoReload
    /\ worker = [w \in Workers |-> Idle]
    /\ result_queue = [w \in Workers |-> <<>>]
    /\ persisted \in Indexes
    \* DocumentRetriever.__init__ runs _initialize_retriever once
    /\ vector_store \in (IF persisted = <<>> THEN {FALSE} ELSE {TRUE, FALSE})
    /\ retriever = vector_store
    /\ pc = "idle"
    /\ qn = 0
    /\ question = <<>>
    /\ top_k = NoTopK
    /\ retrieved_docs = <<>>
    /\ searched = "no"
    /\ found = <<>>
    /\ raised = ""
    /\ answer = NoText
    /\ clock = 0
    /\ result = NoResult
    /\ Quiet

(***************************************************************************)
(* answer_question, the main thread.                                       *)
(***************************************************************************)
\* Route without the strip() of line 174: only "" and None count as empty
RouteNoStrip(q) ==
    IF q = <<>> THEN "empty"
    ELSE IF is_greeting(q) THEN "greeting"
    ELSE "qa"

\* Route without the greeting short-circuit of lines 190-201
RouteNoGreeting(q) ==
    IF q = <<>> \/ Len(Strip(q)) = 0 THEN "empty"
    ELSE "qa"

\* the branch answer_question takes before its try block:
\*   "empty"    not question or len(question.strip()) == 0
\*   "greeting" is_greeting(question)
\*   "qa"       retrieval and generation
Route(q) ==
    IF q = <<>> \/ Len(Strip(q)) = 0 THEN "empty"
    ELSE IF is_greeting(q) THEN "greeting"
    ELSE "qa"

\* the main thread is free and the run has questions left
CanCall == pc \in {"idle", "returned", "raised"} /\ qn < MaxQuestions

\* a call of answer_question(q, k) begins
Call(q, k) ==
    /\ CanCall
    /\ qn' = qn + 1
    /\ question' = q
    /\ top_k' = k
    /\ answer' = NoText
    /\ clock' = 0
    /\ UNCHANGED ingestionVars

\* line 208 without its test: an empty search result goes on to generation
NoDocumentsNever(docs) == FALSE

\* line 208, "if not retrieved_docs": the search found nothing
NoDocuments(docs) == docs = <<>>

\* a try block that begins after the search of line 205
HandledAfterSearch(e) == e \in Exceptions \ {"as_retriever"}

\* the try block of answer_question (lines 203-292) covers the statement
\* that raises e, so that "except Exception" (line 293) catches it
Handled(e) == e \in Exceptions

\* the call returns the dictionary r without having started a worker
ReturnEarly(r) ==
    /\ pc' = "returned"
    /\ result' = r
    /\ UNCHANGED << llmVars, worker, result_queue >>

\* answer_question, lines 174-184: empty or whitespace-only question
AnswerEmpty(q, k) ==
    /\ Call(q, k)
    /\ Route(q) = "empty"
    /\ searched' = "no" /\ found' = <<>> /\ raised' = ""
    /\ retrieved_docs' = <<>>
    /\ ReturnEarly(Answer(q, EmptyQuestionMessage, <<>>, 0, "", NoModelInfo))
    /\ UNCHANGED indexVars

\* answer_question, lines 190-201: greeting, answered by random.choice
AnswerGreeting(q, k) ==
    /\ Call(q, k)
    /\ Route(q) = "greeting"
    /\ searched' = "no" /\ found' = <<>> /\ raised' = ""
    /\ retrieved_docs' = <<>>
    /\ \E g \in GREETING_RESPONSES : ReturnEarly(Answer(q, g, <<>>, 0, "", NoModelInfo))
    /\ UNCHANGED indexVars

\* answer_question, lines 205-218: search finds nothing
AnswerNoDocuments(q, k) ==
    /\ Call(q, k)
    /\ Route(q) = "qa"
    /\ searched' = "returned" /\ raised' = ""
    /\ \E o \in search :
        /\ o.exc = "" /\ NoDocuments(o.docs)
        /\ vector_store' = o.vs /\ retriever' = o.ret
        /\ found' = o.docs
    /\ retrieved_docs' = <<>>
    /\ ReturnEarly(Answer(q, NoInformationMessage, <<>>, 0, "", NoModelInfo))
    /\ UNCHANGED persisted

\* answer_question, lines 203-273 and 293-307: an exception of search, of
\* the prompt assembly or of thread.start reaches the except clause
AnswerRaised(q, k) ==
    /\ Call(q, k)
    /\ Route(q) = "qa"
    /\ \E o \in search : \E e \in Exceptions :
        /\ \/ o.exc = e
           \/ o.exc = "" /\ ~NoDocuments(o.docs) /\ e = "thread.start"
           \/ o.exc = "" /\ ~NoDocuments(o.docs) /\ Slice(o.docs, k) # <<>> /\ e = "strip"
        /\ vector_store' = o.vs /\ retriever' = o.ret
        /\ searched' = IF o.exc = "" THEN "returned" ELSE "raised"
        /\ found' = o.docs
        /\ retrieved_docs' = IF o.exc = "" THEN Slice(o.docs, k) ELSE <<>>
        /\ raised' = e
        /\ IF Handled(e)
           THEN ReturnEarly(Answer(q, ProcessingError(e), <<>>, 0, e, NoModelInfo))
           ELSE \* the exception leaves answer_question
                /\ pc' = "raised"
                /\ result' = NoResult
                /\ UNCHANGED << llmVars, worker, result_queue >>
    /\ UNCHANGED persisted

\* answer_question, lines 205-273, and generate_response_with_timeout, lines
\* 107-123: documents found, prompt assembled, worker thread started
AnswerGenerate(q, k) ==
    /\ Call(q, k)
    /\ Route(q) = "qa"
    /\ searched' = "returned" /\ raised' = ""
    /\ \E o \in search :
        /\ o.exc = "" /\ ~NoDocuments(o.docs)
        /\ vector_store' = o.vs /\ retriever' = o.ret
        /\ found' = o.docs
        /\ retrieved_docs' = Slice(o.docs, k)
    /\ worker' = [worker EXCEPT ![qn + 1] = [Idle EXCEPT !.pc = "start"]]
    /\ pc' = "wait"
    /\ result' = NoResult
    /\ UNCHANGED << llmVars, result_queue, persisted >>

\* one queue at module level, shared by all calls
QueueShared(n) == 1

\* the queue a generate_response_with_timeout call creates for question n
\* (a new queue.Queue() per call, line 107)
QueueOf(n) == n

\* result_queue.get() without a timeout never gives up
DeadlineNever == FALSE

\* result_queue.get(timeout=timeout) gives up: the deadline has passed
DeadlineReached == clock >= TimeoutTicks

\* time passes while the main thread waits on the queue; the clock stops at
\* the deadline
Tick ==
    /\ pc = "wait"
    /\ clock < TimeoutTicks
    /\ clock' = clock + 1
    /\ UNCHANGED << llmVars, worker, result_queue, indexVars, pc, qn, question,
                    top_k, retrieved_docs, searched, found, raised, answer, result >>
    /\ UNCHANGED ingestionVars

\* generate_response_with_timeout, lines 126-129: an item arrives in time
WaitResult ==
    /\ pc = "wait"
    /\ result_queue[QueueOf(qn)] # <<>>
    /\ LET item == Head(result_queue[QueueOf(qn)])
       IN  /\ answer' = IF item.type = "error"
                        THEN [item.value EXCEPT !.text = "Erro ao gerar resposta"]
                        ELSE item.value
           /\ result_queue' = [result_queue EXCEPT ![QueueOf(qn)] = Tail(@)]
    /\ pc' = "info"
    /\ UNCHANGED << llmVars, worker, indexVars, qn, question, top_k,
                    retrieved_docs, searched, found, raised, clock, result >>
    /\ UNCHANGED ingestionVars

\* generate_response_with_timeout, lines 130-131: queue.Empty at the deadline
WaitTimeout ==
    /\ pc = "wait"
    /\ result_queue[QueueOf(qn)] = <<>>
    /\ DeadlineReached
    /\ answer' = TimeoutMessage
    /\ pc' = "info"
    /\ UNCHANGED << llmVars, worker, result_queue, indexVars, qn, question, top_k,
                    retrieved_docs, searched, found, raised, clock, result >>
    /\ UNCHANGED ingestionVars

\* LLMManager.get_model_info
get_model_info ==
    IF current_model = "None"
    THEN [status |-> "não carregado", type |-> model_type, name |-> ""]
    ELSE [status |-> "carregado", type |-> model_info.type, name |-> model_info.name]

\* answer_question, lines 275-291: model info read, answer returned
ReturnAnswer ==
    /\ pc = "info"
    /\ result' = Answer(question, answer, Sources(retrieved_docs),
                        Len(retrieved_docs), "", get_model_info)
    /\ pc' = "returned"
    /\ UNCHANGED << llmVars, worker, result_queue, indexVars, qn, question, top_k,
                    retrieved_docs, searched, found, raised, answer, clock >>
    /\ UNCHANGED ingestionVars

(***************************************************************************)
(* LLMManager.generate_response, run by target_function in a worker thread.*)
(***************************************************************************)
\* the item target_function puts for a value generate_response returned / an
\* exception it raised (lines 110-119)
target_function(r) ==
    IF r.raised THEN [type |-> "error", value |-> r.value]
    ELSE [type |-> "success", value |-> r.value]

\* worker w ends: the outcome r of generate_response goes to its queue
Put(w, r) ==
    result_queue' = [result_queue EXCEPT ![QueueOf(w)] = Append(@, target_function(r))]

\* generate_response returns the string t
Returned(t, w) == [raised |-> FALSE, value |-> TextBy(t, w)]

\* generate_response without its try / except: the exception leaves it
generate_response_raises(w) == [raised |-> TRUE, value |-> TextBy("Exception", w)]

\* generate_response, lines 258-260: the except clause turns the exception
\* of the backend call into the string "Erro ao gerar resposta: ..."
generate_response_except(w) == Returned("Erro ao gerar resposta", w)

\* load_model with the OpenAI backend as the fallback of unsupported kinds
load_model_kind_openai(arg) ==
    LET mt == IF arg = "None" THEN model_type ELSE arg
    IN  IF mt = "local" THEN "local" ELSE "openai"

\* the backend kind load_model(arg) dispatches to (lines 187-199); an
\* unsupported kind falls back to the local model
load_model_kind(arg) ==
    LET mt == IF arg = "None" THEN model_type ELSE arg
    IN  IF mt = "openai" THEN "openai" ELSE "local"

\* the outcomes of _load_openai_model / _load_local_model before any
\* assignment: the failures return False, "ok" goes on to assign
\* current_model, "hang" never returns (from_pretrained on a large file)
LoadOutcomes(kind) ==
    IF kind = "openai"
    THEN {"ImportError"} \cup (IF OPENAI_API_KEY THEN {"ok", "Exception"} ELSE {"no key"})
    ELSE {"ImportError", "no file", "Exception", "ok", "hang"}

\* generate_response, line 218: after a failed load of the configured
\* backend, the local model is tried when the configured kind is openai
FallbackToLocal(w) == worker[w].attempt = 1 /\ model_type = "openai"

\* generate_response with a load_model call at the start of every call
NeedsLoadAlways == TRUE

\* generate_response, line 213, "if not self.current_model"
NeedsLoad == current_model = "None"

\* generate_response, line 213: the model is loaded only when none is current
CheckModel(w) ==
    /\ worker[w].pc = "start"
    /\ worker' = [worker EXCEPT ![w].pc =
                    IF NeedsLoad THEN "load_model" ELSE "generate"]
    /\ UNCHANGED << llmVars, result_queue, indexVars, pc, qn, question, top_k,
                    retrieved_docs, searched, found, raised, answer, clock, result >>
    /\ UNCHANGED ingestionVars

\* load_model(), line 215: dispatch on self.model_type
LoadModel(w) ==
    /\ worker[w].pc = "load_model"
    /\ worker' = [worker EXCEPT ![w] =
                    [@ EXCEPT !.pc = "_load", !.kind = load_model_kind("None"),
                              !.attempt = 1]]
    /\ UNCHANGED << llmVars, result_queue, indexVars, pc, qn, question, top_k,
                    retrieved_docs, searched, found, raised, answer, clock, result >>
    /\ UNCHANGED ingestionVars

\* _load_openai_model, lines 66-76, and _load_local_model, lines 101-117:
\* the load succeeds and current_model is assigned
LoadSucceeds(w) ==
    /\ worker[w].pc = "_load"
    /\ "ok" \in LoadOutcomes(worker[w].kind)
    /\ current_model' = worker[w].kind
    /\ worker' = [worker EXCEPT ![w].pc = "set_info"]
    /\ UNCHANGED << MODEL_TYPE, OPENAI_API_KEY, model_type, model_info, reload, result_queue,
                    indexVars, pc, qn, question, top_k, retrieved_docs, searched, found, raised,
                    answer, clock, result >>
    /\ UNCHANGED ingestionVars

\* _load_openai_model, lines 77-86, and _load_local_model, lines 119-128:
\* model_info is assigned, True is returned, generate_response goes on
SetModelInfo(w) ==
    /\ worker[w].pc = "set_info"
    /\ model_info' = InfoOf(worker[w].kind)
    /\ worker' = [worker EXCEPT ![w].pc = "generate"]
    /\ UNCHANGED << MODEL_TYPE, OPENAI_API_KEY, model_type, current_model, reload,
                    result_queue, indexVars, pc, qn, question, top_k, retrieved_docs,
                    searched, found, raised, answer, clock, result >>
    /\ UNCHANGED ingestionVars

\* _load_openai_model / _load_local_model return False
LoadFails(w) ==
    /\ worker[w].pc = "_load"
    /\ \E o \in LoadOutcomes(worker[w].kind) : o \notin {"ok", "hang"}
    /\ worker' = [worker EXCEPT ![w].pc = "load_failed"]
    /\ UNCHANGED << llmVars, result_queue, indexVars, pc, qn, question, top_k,
                    retrieved_docs, searched, found, raised, answer, clock, result >>
    /\ UNCHANGED ingestionVars

\* from_pretrained never returns
LoadHangs(w) ==
    /\ worker[w].pc = "_load"
    /\ "hang" \in LoadOutcomes(worker[w].kind)
    /\ worker' = [worker EXCEPT ![w].pc = "hung"]
    /\ UNCHANGED << llmVars, result_queue, indexVars, pc, qn, question, top_k,
                    retrieved_docs, searched, found, raised, answer, clock, result >>
    /\ UNCHANGED ingestionVars

\* generate_response, lines 218-220: load_model("local") after a failure
LoadFallback(w) ==
    /\ worker[w].pc = "load_failed"
    /\ FallbackToLocal(w)
    /\ worker' = [worker EXCEPT ![w] =
                    [@ EXCEPT !.pc = "_load", !.kind = load_model_kind("local"),
                              !.attempt = 2]]
    /\ UNCHANGED << llmVars, result_queue, indexVars, pc, qn, question, top_k,
                    retrieved_docs, searched, found, raised, answer, clock, result >>
    /\ UNCHANGED ingestionVars

\* generate_response, lines 222-223: no model could be loaded
LoadGivesUp(w) ==
    /\ worker[w].pc = "load_failed"
    /\ ~FallbackToLocal(w)
    /\ Put(w, Returned("Erro: Não foi possível carregar nenhum modelo", w))
    /\ worker' = [worker EXCEPT ![w].pc = "done"]
    /\ UNCHANGED << llmVars, indexVars, pc, qn, question, top_k, retrieved_docs,
                    searched, found, raised, answer, clock, result >>
    /\ UNCHANGED ingestionVars

\* the backend call of generate_response is made on an object of the kind
\* model_info names (lines 234 and 248); on another object it raises
\* (AttributeError, TypeError)
CallFits == current_model = model_info.type

\* the keyword arguments target_function passes to generate_response with
\* the prompt (qa_engine.py, lines 110-115)
Kwargs == {"temperature", "max_tokens", "system_prompt"}

\* the request of generate_response to a backend of the given kind: the
\* prompt as the single user message of chat.completions.create (lines
\* 234-239) or as the argument of the local pipeline (lines 248-252), with
\* the temperature and max_tokens read from kwargs (lines 230-231, 245-246)
BackendRequest(kind, kwargs) == {"prompt"} \cup (kwargs \cap {"temperature", "max_tokens"})

\* generate_response, lines 226-252: the backend call returns
Generate(w) ==
    /\ worker[w].pc = "generate"
    /\ model_info.type \in {"openai", "local"}
    /\ CallFits
    /\ Put(w, Returned("resposta", w))
    /\ worker' = [worker EXCEPT ![w] = [@ EXCEPT !.pc = "done", !.backend = "returns",
                                                  !.request = BackendRequest(model_info.type, Kwargs)]]
    /\ UNCHANGED << llmVars, indexVars, pc, qn, question, top_k, retrieved_docs,
                    searched, found, raised, answer, clock, result >>
    /\ UNCHANGED ingestionVars

\* generate_response, lines 226-260: the backend call raises
GenerateRaises(w) ==
    /\ worker[w].pc = "generate"
    /\ model_info.type \in {"openai", "local"}
    /\ Put(w, generate_response_except(w))
    /\ worker' = [worker EXCEPT ![w] = [@ EXCEPT !.pc = "done", !.backend = "raises",
                                                  !.request = BackendRequest(model_info.type, Kwargs)]]
    /\ UNCHANGED << llmVars, indexVars, pc, qn, question, top_k, retrieved_docs,
                    searched, found, raised, answer, clock, result >>
    /\ UNCHANGED ingestionVars

\* the backend call never returns
GenerateHangs(w) ==
    /\ worker[w].pc = "generate"
    /\ model_info.type \in {"openai", "local"}
    /\ CallFits
    /\ worker' = [worker EXCEPT ![w] = [@ EXCEPT !.pc = "hung", !.backend = "hangs",
                                                  !.request = BackendRequest(model_info.type, Kwargs)]]
    /\ UNCHANGED << llmVars, result_queue, indexVars, pc, qn, question, top_k,
                    retrieved_docs, searched, found, raised, answer, clock, result >>
    /\ UNCHANGED ingestionVars

\* generate_response, lines 254-256: model_info names no known kind
GenerateUnsupported(w) ==
    /\ worker[w].pc = "generate"
    /\ model_info.type \notin {"openai", "local"}
    /\ Put(w, Returned("Erro: Tipo de modelo não suportado", w))
    /\ worker' = [worker EXCEPT ![w].pc = "done"]
    /\ UNCHANGED << llmVars, indexVars, pc, qn, question, top_k, retrieved_docs,
                    searched, found, raised, answer, clock, result >>
    /\ UNCHANGED ingestionVars

(***************************************************************************)
(* Specifications.                                                         *)
(***************************************************************************)
\* the main thread, its questions drawn from Qs and its top_k from Ks
MainStep(Qs, Ks) ==
    \/ CanCall /\ \E q \in Qs : \E k \in Ks : AnswerEmpty(q, k)
    \/ CanCall /\ \E q \in Qs : \E k \in Ks : AnswerGreeting(q, k)
    \/ CanCall /\ \E q \in Qs : \E k \in Ks : AnswerNoDocuments(q, k)
    \/ CanCall /\ \E q \in Qs : \E k \in Ks : AnswerRaised(q, k)
    \/ CanCall /\ \E q \in Qs : \E k \in Ks : AnswerGenerate(q, k)
    \/ WaitResult
    \/ WaitTimeout
    \/ ReturnAnswer

WorkerStep ==
    \E w \in Workers :
        \/ CheckModel(w)
        \/ LoadModel(w)
        \/ LoadSucceeds(w)
        \/ SetModelInfo(w)
        \/ LoadFails(w)
        \/ LoadHangs(w)
        \/ LoadFallback(w)
        \/ LoadGivesUp(w)
        \/ Generate(w)
        \/ GenerateRaises(w)
        \/ GenerateHangs(w)
        \/ GenerateUnsupported(w)

\* one question of each route: empty, greeting, retrieval and generation
SmallQuestions == { <<>>, <<"OI">>, <<"dia">> }

\* Spec: MaxQuestions questions in a row over an index that is loaded; the
\* generation threads of all of them interleave with each other and with
\* the main thread.
InitLoaded ==
    /\ Init
    /\ persisted = <<1>>
    /\ retriever

Next == MainStep(SmallQuestions, {NoTopK}) \/ WorkerStep \/ Tick

Spec == InitLoaded /\ [][Next]_vars

\* SpecQA: one answer_question call with any question, any top_k and any
\* state of the index and the retriever, after MaxQuestions - 1 calls that
\* took the empty, greeting or exception route, or of which the first timed
\* out and left its worker behind between the two assignments of a load.
Abandoned(kind) == [Idle EXCEPT !.pc = "set_info", !.kind = kind, !.attempt = 1]

InitQA ==
    /\ MODEL_TYPE \in ModelTypes
    /\ OPENAI_API_KEY \in BOOLEAN
    /\ model_type = MODEL_TYPE
    /\ model_info = EmptyInfo
    /\ reload = NoReload
    /\ \/ /\ current_model = "None"
          /\ worker = [w \in Workers |-> Idle]
       \/ /\ "ok" \in LoadOutcomes(load_model_kind("None"))
          /\ current_model = load_model_kind("None")
          /\ worker = [w \in Workers |->
                         IF w = 1 THEN Abandoned(current_model) ELSE Idle]
    /\ result_queue = [w \in Workers |-> <<>>]
    /\ persisted \in Indexes
    /\ vector_store \in (IF persisted = <<>> THEN {FALSE} ELSE {TRUE, FALSE})
    \* vector_store set and retriever unset: as_retriever raised in a call
    /\ retriever \in (IF vector_store THEN {TRUE, FALSE} ELSE {FALSE})
    /\ pc = "idle"
    /\ qn = MaxQuestions - 1
    /\ question = <<>>
    /\ top_k = NoTopK
    /\ retrieved_docs = <<>>
    /\ searched = "no"
    /\ found = <<>>
    /\ raised = ""
    /\ answer = NoText
    /\ clock = 0
    /\ result = NoResult
    /\ Quiet

NextQA == MainStep(Questions, TopKs) \/ WorkerStep \/ Tick

SpecQA == InitQA /\ [][NextQA]_vars

\* FairSpec: Spec with a main thread that keeps running and a clock that
\* keeps ticking; the workers get no fairness: a backend call may never end.
FairSpec ==
    /\ Spec
    /\ WF_vars(Tick)
    /\ WF_vars(WaitResult)
    /\ WF_vars(WaitTimeout)
    /\ WF_vars(ReturnAnswer)

(***************************************************************************)
(* Properties of answer_question (SpecQA).                                 *)
(***************************************************************************)
\* the question consists of blanks only, or is "" / None
Blank(q) == \A i \in 1..Len(q) : q[i] = " "

\* the current call has started no generation thread, hence made no
\* generate_response and no load_model call
NoGeneration == worker[qn] = Idle /\ result_queue[qn] = <<>>

\* C3: answer_question with an empty or whitespace-only question returns the
\* fixed prompt-for-input message with empty sources and
\* retrieved_documents = 0, without calling Retriever.search and without
\* starting generation or a model load.
C3_EmptyQuestionShortCircuit ==
    (pc \in {"wait", "info", "returned", "raised"} /\ Blank(question))
        => /\ pc = "returned"
           /\ result = Answer(question, EmptyQuestionMessage, <<>>, 0, "", NoModelInfo)
           /\ searched = "no"
           /\ NoGeneration

\* a whitespace-only question was answered
C3_Witness ==
    /\ pc = "returned"
    /\ question = <<" ", " ">>
    /\ result.answer = EmptyQuestionMessage

\* C4: for every question that matches a greeting pattern, answer_question
\* returns one of the canned greeting responses with empty sources and
\* retrieved_documents = 0, and neither Retriever.search nor generation or
\* model loading is invoked.
C4_GreetingShortCircuit ==
    (pc \in {"wait", "info", "returned", "raised"} /\ is_greeting(question))
        => /\ pc = "returned"
           /\ result.answer \in GREETING_RESPONSES
           /\ result.sources = <<>>
           /\ result.retrieved_documents = 0
           /\ result.error = ""
           /\ searched = "no"
           /\ NoGeneration

\* "OI " was answered with a canned response
C4_Witness ==
    /\ pc = "returned"
    /\ question = <<"OI", " ">>
    /\ result.answer \in GREETING_RESPONSES

\* C5: for a non-empty, non-greeting question, when Retriever.search returns
\* an empty result (index absent, retrieval failed or nothing relevant),
\* answer_question returns the fixed "no relevant information" answer with
\* empty sources and retrieved_documents = 0, and starts no generation.
C5_NoDocumentsAnswer ==
    (pc \in {"wait", "info", "returned", "raised"} /\ searched = "returned" /\ found = <<>>)
        => /\ pc = "returned"
           /\ result = Answer(question, NoInformationMessage, <<>>, 0, "", NoModelInfo)
           /\ NoGeneration

\* a search without an index returned nothing and the fixed answer was given
C5_Witness ==
    /\ pc = "returned"
    /\ searched = "returned" /\ found = <<>>
    /\ persisted = <<>>
    /\ result.answer = NoInformationMessage

\* the worker of the current call met an exception of the backend and its
\* outcome is the answer of the call
GenerationRaised == worker[qn].backend = "raises" /\ result.answer.by = qn

\* the degraded Answer of lines 298-307 for the exception e
Degraded(e) == Answer(question, ProcessingError(e), <<>>, 0, e, NoModelInfo)

\* C6 as claimed: for any exception raised by retrieval, prompt assembly,
\* generation or model-info lookup, answer_question returns a degraded Answer
\* (empty sources, retrieved_documents = 0, the exception message in the
\* answer text and in metadata.error) and never raises to its caller.
C6_Original ==
    /\ pc # "raised"
    /\ (pc = "returned" /\ (raised # "" \/ GenerationRaised))
          => /\ result.sources = <<>>
             /\ result.retrieved_documents = 0
             /\ result.error # ""
             /\ result.answer = ProcessingError(result.error)

\* C6, amended: answer_question never raises to its caller. An exception of
\* retrieval, prompt assembly or thread start reaches its except clause and
\* yields the degraded Answer (empty sources, retrieved_documents = 0, the
\* exception message in the answer text and in metadata.error). An exception
\* of the backend during generation is contained below it: the Answer has the
\* error string as text, the sources and count of the retrieved documents,
\* and no metadata.error.
C6_FaultContainment ==
    /\ pc # "raised"
    /\ (pc = "returned" /\ raised # "") => result = Degraded(raised)
    /\ (pc = "returned" /\ GenerationRaised)
          => /\ result.answer.text = "Erro ao gerar resposta"
             /\ result.sources = Sources(retrieved_docs)
             /\ result.retrieved_documents = Len(retrieved_docs)
             /\ result.error = ""

\* the lazy initialisation of the retriever raised and the call returned
\* the degraded Answer
C6_Witness ==
    /\ pc = "returned"
    /\ raised = "as_retriever"
    /\ result = Degraded("as_retriever")

(***************************************************************************)
(* Properties of generation under the deadline (Spec, FairSpec).           *)
(***************************************************************************)
\* C1: when generation (with the model load it triggers) produces no result
\* within the timeout, generate_response_with_timeout returns the timeout
\* message at the deadline; whatever the backend does (returns, raises,
\* never returns) the caller of answer_question eventually gets an Answer
\* and never waits on the worker beyond the deadline.
C1_AnswerByDeadline ==
    /\ [][(pc = "wait" /\ pc' # "wait" /\ result_queue[qn] = <<>>)
             => (answer' = TimeoutMessage /\ clock = TimeoutTicks)]_vars
    /\ [](pc = "wait" => clock <= TimeoutTicks)
    /\ (pc = "wait") ~> (pc = "returned")

\* the worker of the question hangs and the question got the timeout answer
C1_Witness ==
    /\ pc = "returned"
    /\ worker[qn].pc = "hung"
    /\ result.answer = TimeoutMessage
    /\ clock = TimeoutTicks

\* C2: the result an abandoned worker eventually produces is discarded: the
\* answer text returned for a question that reached generation is the result
\* or error string of the worker started for that question, or the timeout
\* message, under every interleaving of old and new workers.
C2_OwnWorkerOnly ==
    (pc \in {"info", "returned"} /\ worker[qn].pc # "unborn" /\ raised = "")
        => /\ answer = TimeoutMessage \/ answer.by = qn
           /\ pc = "returned" => result.answer = answer

\* the second question is answered by its own worker while the result of
\* the first, abandoned worker lies in the first queue
C2_Witness ==
    /\ pc = "returned"
    /\ qn = 2
    /\ worker[1].pc = "done" /\ result_queue[1] # <<>>
    /\ result.answer.by = 2

\* C7: an exception the backend raises during generation is caught and
\* converted into an error string returned as the answer text; it never
\* leaves generate_response or generate_response_with_timeout as a raised
\* exception.
C7_GenerationErrorsAreText ==
    /\ \A w \in Workers : \A i \in 1..Len(result_queue[w]) :
          /\ result_queue[w][i].type = "success"
          /\ worker[w].backend = "raises"
                => result_queue[w][i].value = TextBy("Erro ao gerar resposta", w)
    /\ pc # "raised"
    /\ (pc \in {"info", "returned"} /\ worker[qn].backend = "raises" /\ answer.by = qn)
          => answer = TextBy("Erro ao gerar resposta", qn)

\* the backend raised and the question was answered with the error string
C7_Witness ==
    /\ pc = "returned"
    /\ worker[qn].backend = "raises"
    /\ result.answer = TextBy("Erro ao gerar resposta", qn)

\* C8 as claimed (for a supported configured kind): the only backend that
\* can become current is the one of the configured kind, and no other kind
\* is ever tried or loaded when the configured one fails.
C8_Original ==
    MODEL_TYPE \in {"openai", "local"}
        => /\ current_model \in {"None", MODEL_TYPE}
           /\ \A w \in Workers : worker[w].kind \in {"None", MODEL_TYPE}

\* C8, amended: the backend is chosen by the configuration with the local
\* model as the only fallback. load_model loads the configured kind, or the
\* local model when the configured kind is unsupported; generate_response
\* tries the local model once after the load of a configured openai backend
\* failed. The OpenAI backend is tried and becomes current only when it is
\* the configured kind, and no worker makes more than two load attempts.
C8_ConfiguredOrLocalFallback ==
    /\ current_model \in {"None", "local", MODEL_TYPE}
    /\ current_model = "openai" => MODEL_TYPE = "openai"
    /\ \A w \in Workers :
          /\ worker[w].kind \in {"None", "local", MODEL_TYPE}
          /\ worker[w].kind = "openai" => (MODEL_TYPE = "openai" /\ worker[w].attempt = 1)
          /\ worker[w].attempt <= 2
          /\ worker[w].attempt = 2 => (MODEL_TYPE = "openai" /\ worker[w].kind = "local")

\* the configured OpenAI backend failed to load and the local model is current
C8_Witness ==
    /\ MODEL_TYPE = "openai"
    /\ current_model = "local"
    /\ \E w \in Workers : worker[w].attempt = 2 /\ worker[w].pc = "generate"

\* C9: a load that fails returns false and leaves the manager not loaded:
\* after any failed load_model call no backend is current and get_model_info
\* does not report the model as loaded.
C9_FailedLoadLeavesUnloaded ==
    [][\A w \in Workers :
          (worker[w].pc = "_load" /\ worker'[w].pc = "load_failed")
              => (current_model' = "None" /\ get_model_info'.status # "carregado")]_vars

\* C10: get_model_info reports status unloaded before any load and, once a
\* backend is current, status loaded with the name and kind of that backend,
\* at every point answer_question calls it, also right after a timeout while
\* a worker is still loading.
C10_ModelInfoMatchesBackend ==
    pc = "info" =>
        IF current_model = "None"
        THEN get_model_info.status = "não carregado"
        ELSE /\ get_model_info.status = "carregado"
             /\ get_model_info.type = current_model
             /\ get_model_info.name = InfoOf(current_model).name

(***************************************************************************)
(* Properties of the lazy model load (Spec).                               *)
(***************************************************************************)
\* the item generate_response leaves when no model could be loaded
LoadError(w) ==
    [type |-> "success", value |-> TextBy("Erro: Não foi possível carregar nenhum modelo", w)]

\* C11: generate_response triggers a model load only when no model is
\* loaded. A call that begins while a backend is current goes straight to
\* generation with that backend and makes no load_model call; a call that
\* begins while none is current (never loaded, or after a failed load)
\* calls load_model; once a backend is current there is always one.
C11_LoadOnlyWhenUnloaded ==
    [][/\ \A w \in Workers :
            /\ (worker[w].pc = "start" /\ worker'[w].pc # "start")
                  => /\ worker'[w].pc = (IF current_model = "None"
                                         THEN "load_model" ELSE "generate")
                     /\ worker'[w].attempt = 0
            /\ worker'[w].attempt > worker[w].attempt
                  => worker[w].pc \in {"load_model", "load_failed"}
            /\ worker'[w].pc = "load_model" => worker[w].pc \in {"start", "load_model"}
       /\ current_model # "None" => current_model' # "None"]_vars

\* the first call loaded a backend and generated; the second call reuses it
\* without a load. And: the first call's load failed, the second retries.
C11_Witness ==
    \/ /\ worker[1].pc = "done" /\ worker[1].attempt = 1 /\ worker[1].backend = "returns"
       /\ worker[2].pc = "done" /\ worker[2].attempt = 0 /\ worker[2].backend = "returns"
       /\ current_model = worker[1].kind
    \/ /\ worker[1].pc = "done" /\ LoadError(1) \in { result_queue[1][i] : i \in 1..Len(result_queue[1]) }
       /\ worker[2].pc = "_load" /\ worker[2].attempt = 1
       /\ current_model = "None"

(***************************************************************************)
(* validate_file on its own (SpecValidate).                                *)
(***************************************************************************)
\* the variables of the question path
questionVars ==
    << llmVars, worker, result_queue, indexVars, pc, qn, question, top_k,
       retrieved_docs, searched, found, raised, answer, clock, result >>

\* no question was asked and no model is loaded
QuestionPathIdle ==
    /\ MODEL_TYPE = "local"
    /\ OPENAI_API_KEY = FALSE
    /\ model_type = MODEL_TYPE
    /\ current_model = "None"
    /\ model_info = EmptyInfo
    /\ reload = NoReload
    /\ worker = [w \in Workers |-> Idle]
    /\ result_queue = [w \in Workers |-> <<>>]
    /\ pc = "idle"
    /\ qn = 0
    /\ question = <<>>
    /\ top_k = NoTopK
    /\ retrieved_docs = <<>>
    /\ searched = "no"
    /\ found = <<>>
    /\ raised = ""
    /\ answer = NoText
    /\ clock = 0
    /\ result = NoResult

\* no index on disk, none in memory
NoIndex == persisted = <<>> /\ vector_store = FALSE /\ retriever = FALSE

\* validate_file(file_path) is called on the path and returns
Validate ==
    /\ validation.result = NotValidated
    /\ validation' = [validation EXCEPT !.result = validate_file(validation.file)]
    /\ UNCHANGED << questionVars, unflushed, ing, report, hist, ranking >>

\* SpecValidate: one validate_file call on any path of AllFiles
InitValidate ==
    /\ QuestionPathIdle
    /\ NoIndex
    /\ unflushed = <<>>
    /\ ing = NoIngest
    /\ report = NoReport
    /\ hist = NoHist
    /\ ranking = NoRanking
    /\ validation \in { NoValidation(f, TRUE) : f \in AllFiles }

NextValidate == Validate

SpecValidate == InitValidate /\ [][NextValidate]_vars

\* C20: validate_file returns (false, reason) for a missing path, for a path
\* that is not a regular file, for a file of more than 20 MB and for a file
\* whose guessed mime type is not supported, with the reason of the first
\* of these checks that fails, in this order; it returns (true, ...) exactly
\* when none of them fails, so a file of exactly 20 * 1024 * 1024 bytes
\* passes the size check.
C20_ValidateFile ==
    validation.result # NotValidated =>
        LET f == validation.file
            r == validation.result
            supported == guess_type(f.ext) \in SUPPORTED_MIME_TYPES
        IN  /\ r[1] \in BOOLEAN
            /\ r[1] <=> (f.exists /\ f.isfile /\ f.size <= 20971520 /\ supported)
            /\ ~f.exists => r[2] = "Arquivo não encontrado"
            /\ (f.exists /\ ~f.isfile) => r[2] = "O caminho especificado não é um arquivo"
            /\ (f.exists /\ f.isfile /\ f.size > 20971520)
                  => r[2] = "Arquivo muito grande (máximo 20MB)"
            /\ (f.exists /\ f.isfile /\ f.size <= 20971520 /\ ~supported)
                  => r[2] = "Tipo de arquivo não suportado"

\* a pdf of exactly 20 * 1024 * 1024 bytes was validated and accepted
C20_Witness ==
    /\ validation.file.size = 20971520
    /\ validation.file.ext = ".pdf"
    /\ validation.result = << TRUE, "Arquivo válido" >>

(***************************************************************************)
(* SpecProcess: process_document on any path of AllFiles, with the docx    *)
(* and pdf libraries installed or not, and the split of its text.          *)
(***************************************************************************)
\* process_document(file_path) is called on the path and returns or raises
ProcessDocument ==
    /\ validation.processed = NotProcessed
    /\ validation' =
          [validation EXCEPT
             !.result = validate_file(validation.file),
             !.processed = process_document_from(validation.file, validation.available)]
    /\ UNCHANGED << questionVars, unflushed, ing, report, hist, ranking >>

\* ingest_documents, lines 443-455, for the processed file: its text is
\* split, by the splitter or, when that raises, by the fallback
SplitText(raises) ==
    /\ validation.processed.status = "success"
    /\ validation.split = "no"
    /\ LET text == validation.processed.text
       IN  validation' =
              [validation EXCEPT
                 !.chunks = split_text(text, 1, validation.file.chunks, raises),
                 !.split = IF text \in {"", " "} THEN "blank"
                           ELSE IF raises THEN "fallback" ELSE "splitter"]
    /\ UNCHANGED << questionVars, unflushed, ing, report, hist, ranking >>

InitProcess ==
    /\ QuestionPathIdle
    /\ NoIndex
    /\ unflushed = <<>>
    /\ ing = NoIngest
    /\ report = NoReport
    /\ hist = NoHist
    /\ ranking = NoRanking
    /\ validation \in { NoValidation(f, a) : f \in AllFiles, a \in BOOLEAN }

NextProcess ==
    \/ ProcessDocument
    \/ \E raises \in BOOLEAN : SplitText(raises)

SpecProcess == InitProcess /\ [][NextProcess]_vars

\* the extractor of the file has failed: a docx or pdf whose library is
\* missing or whose bytes are not in the format
ExtractionFails(f, available) ==
    /\ f.ext \in {".docx", ".pdf"}
    /\ ~available \/ f.content \in {"empty", "corrupt"}

\* C21: for every supported file type, process_document on a valid,
\* non-empty file under the size cap returns status success with non-empty
\* text equal to the content of the file, and it never raises; a failure of
\* the extraction yields status error with a message.
C21_ProcessDocument ==
    validation.processed # NotProcessed =>
        LET f == validation.file
            r == validation.processed
            accepted == validation.result[1]
            supported == f.ext \in {".txt", ".docx", ".pdf"}
        IN  /\ r.status \in {"success", "error"}
            /\ (accepted /\ supported /\ f.content # "empty"
                  /\ ~ExtractionFails(f, validation.available))
                  => (r.status = "success" /\ r.text # "" /\ r.text = TextOf(f))
            /\ (accepted /\ supported /\ ExtractionFails(f, validation.available))
                  => (r.status = "error" /\ r.message # "")

\* C22: every successfully processed document whose text is not blank
\* contributes at least one chunk, carrying its metadata, to the chunks
\* that go to add_documents; when the splitter fails it contributes exactly
\* one chunk that holds the whole text; empty or blank text contributes no
\* chunk and the document stays a success.
C22_NoDocumentDropped ==
    validation.split # "no" =>
        LET text == validation.processed.text
            chunks == validation.chunks
        IN  /\ validation.processed.status = "success"
            /\ text \notin {"", " "}
                  => /\ Len(chunks) >= 1
                     /\ \A k \in 1..Len(chunks) : chunks[k].file = 1
            /\ validation.split = "fallback" => chunks = << Whole(1) >>
            /\ validation.split = "splitter"
                  => chunks = [k \in 1..validation.file.chunks |-> Chunk(1, k)]
            /\ validation.split = "blank" <=> text \in {"", " "}
            /\ text \in {"", " "} => chunks = <<>>

\* the splitter raised on the text of a docx of MaxChunks chunks and the
\* fallback returned the whole text as one chunk
C22_Witness ==
    /\ validation.split = "fallback"
    /\ validation.file.ext = ".docx"
    /\ validation.file.chunks = MaxChunks
    /\ validation.processed.status = "success"
    /\ validation.chunks = << Whole(1) >>

(***************************************************************************)
(* EmbeddingsManager.add_documents and ingest_documents.                   *)
(*                                                                         *)
(* The Chroma collection in memory holds the persisted chunks followed by  *)
(* the chunks added since the last persist() (unflushed).                  *)
(***************************************************************************)
\* the chunks of the collection in memory
Collection == persisted \o unflushed

\* an add_documents that returns without calling persist()
persist_skipped(disk, collection) == disk

\* vector_store.persist() (lines 107 and 171): what the directory holds
\* afterwards, given what it held and the collection in memory
persist(disk, collection) == collection

\* a from_documents that starts from an empty collection
from_documents_fresh(documents) == documents

\* Chroma.from_documents(documents, persist_directory=VECTORSTORE_DIR)
\* (line 100): the collection of the directory, created if there is none,
\* with the documents added
from_documents(documents) == persisted \o documents

\* EmbeddingsManager.add_documents(documents): its outcomes in the current
\* state. ok: the value returned; disk / mem / vs: persisted, unflushed and
\* vector_store afterwards. With a store (in memory or loaded, line 165) the
\* chunks are added and persisted (lines 168-172); without one
\* create_vector_store builds the collection over VECTORSTORE_DIR and
\* persists it (lines 100-111). Every exception ends in "return False"
\* (lines 112-114 and 176-178): of the embedding before anything is added,
\* or of persist() after the collection in memory has grown.
add_documents(documents) ==
    IF documents = <<>>
    THEN { [ok |-> FALSE, disk |-> persisted, mem |-> unflushed, vs |-> vector_store] }
    ELSE UNION {
           IF got
           THEN { [ok |-> FALSE, disk |-> persisted, mem |-> unflushed, vs |-> TRUE],
                  [ok |-> FALSE, disk |-> persisted, mem |-> unflushed \o documents,
                   vs |-> TRUE],
                  [ok |-> TRUE, disk |-> persist(persisted, Collection \o documents),
                   mem |-> <<>>, vs |-> TRUE] }
           ELSE { [ok |-> FALSE, disk |-> persisted, mem |-> <<>>, vs |-> FALSE],
                  [ok |-> TRUE, disk |-> persist(persisted, from_documents(documents)),
                   mem |-> <<>>, vs |-> TRUE] }
         : got \in get_vector_store }

\* the add_documents call with outcome o is made: the index and the record
\* of the add calls afterwards
Added(documents, o) ==
    /\ persisted' = o.disk
    /\ unflushed' = o.mem
    /\ vector_store' = o.vs
    /\ hist' = [hist EXCEPT !.adds = @ + 1, !.added = documents, !.ok = o.ok,
                            !.acked = IF o.ok THEN @ \o documents ELSE @,
                            !.restarted = FALSE]

\* the argument lists of a direct add_documents call: no chunk, or the
\* chunks m..n of one of two files
DocumentLists ==
    { <<>> } \cup { [k \in 1..(n - m + 1) |-> Chunk(p, m + k - 1)] :
                      p \in 1..2, m \in 1..MaxChunks, n \in 1..MaxChunks }

\* embeddings_manager.add_documents(documents) is called and returns
AddCall(documents) ==
    /\ ing.pc = "idle"
    /\ hist.adds < MaxRuns
    /\ \E o \in add_documents(documents) : Added(documents, o)
    /\ UNCHANGED << llmVars, worker, result_queue, retriever, pc, qn, question, top_k,
                    retrieved_docs, searched, found, raised, answer, clock, result,
                    ing, report, validation, ranking >>

\* the process is started again: the collection in memory is gone, the
\* import of the retriever module loads the persisted index
\* (DocumentRetriever.__init__, load_vector_store)
Restart ==
    /\ ing.pc = "idle"
    /\ unflushed' = <<>>
    /\ vector_store' \in (IF persisted = <<>> THEN {FALSE} ELSE {TRUE, FALSE})
    /\ retriever' = vector_store'
    /\ hist' = [hist EXCEPT !.restarted = TRUE]
    /\ UNCHANGED << llmVars, worker, result_queue, persisted, pc, qn, question, top_k,
                    retrieved_docs, searched, found, raised, answer, clock, result,
                    ing, report, validation, ranking >>

\* the path lists of an ingest_documents call
PathLists == UNION { [1..m -> Paths] : m \in 0..MaxBatch }

\* file_paths=None: the files of DOCS_DIR with a supported extension
\* (lines 425-430)
Uploaded ==
    LET keep(p) == Corpus[p].isfile /\ Corpus[p].ext \in {".pdf", ".docx", ".txt"}
        F[p \in 0..Len(Corpus)] ==
            IF p = 0 THEN <<>>
            ELSE IF keep(p) THEN Append(F[p - 1], p) ELSE F[p - 1]
    IN  F[Len(Corpus)]

\* ingest_documents(file_paths) begins
IngestCall(paths) ==
    /\ ing.pc = "idle"
    /\ hist.runs < MaxRuns
    /\ ing' = [NoIngest EXCEPT !.pc = "run", !.paths = paths]
    /\ report' = NoReport
    /\ hist' = [hist EXCEPT !.runs = @ + 1, !.paths = paths, !.adds = 0,
                            !.added = <<>>, !.ok = FALSE, !.restarted = FALSE]
    /\ UNCHANGED << questionVars, unflushed, validation, ranking >>

\* process_documents, lines 293-298: the result r of the file at path p is
\* counted and kept
Recorded(results, p, r) ==
    IF r.status = "success"
    THEN [results EXCEPT !.success_count = @ + 1,
                         !.processed_files = Append(@, [path |-> p, text |-> r.text])]
    ELSE [results EXCEPT !.error_count = @ + 1,
                         !.errors = Append(@, [path |-> p, message |-> r.message])]

\* process_documents, lines 289-298: the next file of the list is processed;
\* an exception of process_document leaves process_documents and
\* ingest_documents, neither of which has a handler around the call
ProcessFile ==
    /\ ing.pc = "run"
    /\ ing.i <= Len(ing.paths)
    /\ LET p == ing.paths[ing.i]
           r == process_document(Corpus[p])
       IN  IF r.status = "raised"
           THEN /\ ing' = NoIngest
                /\ report' = [EmptyResults EXCEPT !.raised = r.message]
           ELSE /\ ing' = [ing EXCEPT !.i = @ + 1, !.results = Recorded(@, p, r)]
                /\ UNCHANGED report
    /\ UNCHANGED << questionVars, unflushed, hist, validation, ranking >>

\* ingest_documents, lines 443-455: the next processed file is split and its
\* chunks join all_chunks (split_text_into_chunks handles its own
\* exceptions, so the except clause of lines 456-458 is not entered)
ChunkFile ==
    /\ ing.pc = "run"
    /\ ing.i > Len(ing.paths)
    /\ ing.j <= Len(ing.results.processed_files)
    /\ LET doc == ing.results.processed_files[ing.j]
       IN  ing' = [ing EXCEPT !.j = @ + 1,
                              !.all_chunks = @ \o split_text_into_chunks(doc.text, doc.path)]
    /\ UNCHANGED << questionVars, unflushed, report, hist, validation, ranking >>

\* line 461 without its test: add_documents is called in every run
HasChunksAlways(all_chunks) == TRUE

\* line 461, "if all_chunks"
HasChunks(all_chunks) == all_chunks # <<>>

\* a report that names the number of chunks whatever add_documents returned
IndexedAlways(results, ok, n) == [results EXCEPT !.vectorstore_chunks = n]

\* lines 465-470: the report after add_documents returned ok for n chunks
Indexed(results, ok, n) ==
    IF ok THEN [results EXCEPT !.vectorstore_chunks = n]
    ELSE [results EXCEPT !.vectorstore_error = "Falha ao adicionar documentos"]

\* ingest_documents, lines 460-483: every file is processed and split; the
\* chunks go to the index in one add_documents call and the report is
\* returned
IndexChunks ==
    /\ ing.pc = "run"
    /\ ing.i > Len(ing.paths)
    /\ ing.j > Len(ing.results.processed_files)
    /\ IF HasChunks(ing.all_chunks)
       THEN \E o \in add_documents(ing.all_chunks) :
               /\ Added(ing.all_chunks, o)
               /\ report' = Indexed(ing.results, o.ok, Len(ing.all_chunks))
       ELSE /\ report' = [ing.results EXCEPT !.vectorstore_chunks = 0]
            /\ UNCHANGED << persisted, unflushed, vector_store, hist >>
    /\ ing' = NoIngest
    /\ UNCHANGED << llmVars, worker, result_queue, retriever, pc, qn, question, top_k,
                    retrieved_docs, searched, found, raised, answer, clock, result,
                    validation, ranking >>

\* nothing ingested yet, no index
InitIngest ==
    /\ QuestionPathIdle
    /\ NoIndex
    /\ Quiet

\* SpecIngest: MaxRuns ingest_documents calls in a row over the corpus, with
\* restarts of the process between them
NextIngest ==
    \/ ing.pc = "idle" /\ \E paths \in PathLists \cup {Uploaded} : IngestCall(paths)
    \/ ProcessFile
    \/ ChunkFile
    \/ IndexChunks
    \/ Restart

SpecIngest == InitIngest /\ [][NextIngest]_vars

\* SpecIndex: MaxRuns direct add_documents calls with any chunk lists, with
\* restarts of the process between them
NextIndex ==
    \/ ing.pc = "idle" /\ \E documents \in DocumentLists : AddCall(documents)
    \/ Restart

SpecIndex == InitIngest /\ [][NextIndex]_vars

(***************************************************************************)
(* Properties of ingest_documents (SpecIngest).                            *)
(***************************************************************************)
RECURSIVE WithStatus(_, _)
\* the paths of a list whose process_document status is st, in list order
WithStatus(paths, st) ==
    IF paths = <<>> THEN <<>>
    ELSE LET rest == WithStatus(Tail(paths), st)
         IN  IF process_document(Corpus[Head(paths)]).status = st
             THEN << Head(paths) >> \o rest
             ELSE rest

\* the paths of a list of processed_files or errors entries
PathsOf(entries) == [k \in 1..Len(entries) |-> entries[k].path]

RECURSIVE ChunksOf(_)
\* the chunks of a list of processed files, file by file
ChunksOf(files) ==
    IF files = <<>> THEN <<>>
    ELSE split_text_into_chunks(Head(files).text, Head(files).path) \o ChunksOf(Tail(files))

\* the number of times c occurs in seq
Count(seq, c) == Cardinality({ k \in 1..Len(seq) : seq[k] = c })

\* the last ingest_documents call has returned its report
ReportReturned == report.raised = ""

\* the report counts every path of the call once, successes and failures
\* in the order of the list
CountsEveryFile(r, paths) ==
    /\ r.success_count + r.error_count = Len(paths)
    /\ r.success_count = Len(r.processed_files)
    /\ r.error_count = Len(r.errors)
    /\ PathsOf(r.processed_files) = WithStatus(paths, "success")
    /\ PathsOf(r.errors) = [k \in 1..Len(r.errors) |->
                              (WithStatus(paths, "error") \o WithStatus(paths, "raised"))[k]]

\* C12: in ingest_documents / process_documents the failure of one file
\* never aborts the batch: no exception leaves the call, and every file of
\* the list is processed in order and recorded exactly once, in
\* processed_files or in errors, so that success_count + error_count is the
\* number of paths, success_count = |processed_files| and error_count =
\* |errors|.
C12_BatchNeverAborts ==
    /\ report.raised \in {"", "no call"}
    /\ ReportReturned => CountsEveryFile(report, hist.paths)
    /\ ing.pc = "run" =>
          CountsEveryFile(ing.results, SubSeq(ing.paths, 1, Min(ing.i - 1, Len(ing.paths))))

\* C13: each ingest_documents call makes exactly one add_documents call,
\* with the chunks of all successfully processed files of the run, if and
\* only if at least one chunk was produced; the call is made only after
\* every file has been processed and split; no add call is made when no
\* chunk was produced, and vectorstore_chunks is 0 then.
C13_OneBatchedAdd ==
    /\ [](ReportReturned =>
            LET chunks == ChunksOf(report.processed_files)
            IN  /\ hist.adds = (IF chunks # <<>> THEN 1 ELSE 0)
                /\ hist.adds = 1 => hist.added = chunks
                /\ chunks = <<>> => report.vectorstore_chunks = 0)
    /\ [](hist.adds <= 1)
    /\ [][hist'.adds > hist.adds
            => /\ ing.pc = "run"
               /\ ing.i > Len(ing.paths)
               /\ ing.j > Len(ing.results.processed_files)
               /\ hist'.added = ChunksOf(ing.results.processed_files)]_vars

\* two files were processed and their 1 + MaxChunks chunks went to the index
\* in one call
C13_Witness ==
    /\ ReportReturned
    /\ hist.adds = 1
    /\ Len(report.processed_files) = 2
    /\ Len(hist.added) = 1 + MaxChunks
    /\ report.vectorstore_chunks = 1 + MaxChunks

\* C14: when the batched add_documents call fails, ingest_documents still
\* returns a report (it does not raise) whose success_count, error_count,
\* processed_files and errors are those of the extraction, with the failure
\* in vectorstore_error and without vectorstore_chunks.
C14_IndexFailureKeepsReport ==
    [][(hist'.adds > hist.adds /\ ~hist'.ok)
          => /\ report'.raised = ""
             /\ report'.success_count = ing.results.success_count
             /\ report'.error_count = ing.results.error_count
             /\ report'.processed_files = ing.results.processed_files
             /\ report'.errors = ing.results.errors
             /\ CountsEveryFile(report', ing.paths)
             /\ report'.vectorstore_error # ""
             /\ report'.vectorstore_chunks = 0 - 1]_vars

\* a run with one processed file and one failed file whose add call failed
C14_Witness ==
    /\ ReportReturned
    /\ hist.adds = 1 /\ ~hist.ok
    /\ report.success_count = 1 /\ report.error_count = 1
    /\ report.vectorstore_error # ""

\* C15: ingesting the same unchanged file twice, in two calls or twice in
\* one call, leaves the index with as many chunks of that file as the first
\* ingestion: no file has more chunks in the index than it is split into.
C15_IngestIdempotent ==
    \A p \in Paths : \A n \in 1..MaxChunks :
        /\ Count(Collection, Chunk(p, n)) <= 1
        /\ Count(persisted, Chunk(p, n)) <= 1

(***************************************************************************)
(* Properties of EmbeddingsManager.add_documents (SpecIndex).              *)
(***************************************************************************)
\* every chunk of seq a occurs in seq b at least as often
Contains(b, a) == \A k \in 1..Len(a) : Count(b, a[k]) >= Count(a, a[k])

C17_PersistBeforeSuccess ==
    /\ Contains(persisted, hist.acked)
    /\ (hist.restarted /\ vector_store) => Contains(Collection, hist.acked)
    /\ hist.ok => unflushed = <<>>

\* two calls succeeded, the process was restarted and has loaded the index
C17_Witness ==
    /\ hist.restarted /\ vector_store
    /\ hist.adds = 2
    /\ Len(hist.acked) = 2 * MaxChunks
    /\ Collection = hist.acked

\* C30: a failed add leaves the index unchanged: whenever add_documents
\* returns false, none of the chunks of that call is in the index in memory
\* or on disk afterwards (a later search or load sees exactly the chunks of
\* the earlier successful adds), also when the failure is that of persist()
\* after the chunks were appended.
C30_FailedAddLeavesIndex ==
    [][(hist'.adds > hist.adds /\ ~hist'.ok)
          => /\ Collection' = Collection
             /\ persisted' = persisted]_vars

RETRIEVER_THRESHOLD == 2

\* settings.RETRIEVER_SEARCH_TYPE; any other value selects "similarity"
SearchTypes == {"similarity", "mmr", "similarity_score_threshold"}

\* the chunk of S with the highest value, the first of them in index order
Best(S, val) ==
    CHOOSE c \in S : \A d \in S : val[c] > val[d] \/ (val[c] = val[d] /\ c <= d)

RECURSIVE TopBy(_, _, _)
\* the k chunks of S with the highest scores, in non-increasing score order
TopBy(S, score, k) ==
    IF k = 0 \/ S = {} THEN <<>>
    ELSE LET b == Best(S, score)
         IN  << b >> \o TopBy(S \ {b}, score, k - 1)

\* similarity of chunk c to the chunks selected so far
Redundancy(c, selected, close) ==
    IF \E i \in 1..Len(selected) : {c, selected[i]} \in close THEN MaxScore ELSE 0

RECURSIVE MmrSelect(_, _, _, _, _)
\* maximal marginal relevance with lambda_mult = 0.7: the next chunk is the
\* one that maximises 0.7 * relevance - 0.3 * redundancy
MmrSelect(selected, rest, score, close, k) ==
    IF k = 0 \/ rest = {} THEN selected
    ELSE LET val == [c \in rest |-> 7 * score[c] - 3 * Redundancy(c, selected, close)]
             b == Best(rest, val)
         IN  MmrSelect(Append(selected, b), rest \ {b}, score, close, k - 1)

\* a retriever built with "k": RETRIEVER_K * 2 in its search_kwargs
search_k_doubled == RETRIEVER_K * 2

\* search_kwargs["k"] of as_retriever (lines 64, 75 and 83)
search_k == RETRIEVER_K

\* self.retriever.get_relevant_documents(query) for the three retrievers of
\* _initialize_retriever (lines 59-85)
get_relevant_documents(type, score, close) ==
    LET all == DOMAIN score
    IN  CASE type = "mmr" ->
               LET fetched == TopBy(all, score, RETRIEVER_K * 2)
               IN  MmrSelect(<<>>, { fetched[i] : i \in 1..Len(fetched) }, score, close,
                             search_k)
          [] type = "similarity_score_threshold" ->
               TopBy({ c \in all : score[c] >= RETRIEVER_THRESHOLD }, score, search_k)
          [] OTHER -> TopBy(all, score, search_k)

\* format_retrieved_documents (lines 124-143): one dictionary per document,
\* numbered from 0
format_retrieved_documents(documents) ==
    [i \in 1..Len(documents) |-> [id |-> i - 1, content |-> documents[i]]]

\* document_retriever.search(query) over the scored index
ScoredSearch ==
    /\ ~ranking.done
    /\ ranking' = [ranking EXCEPT
                     !.result = format_retrieved_documents(
                                   get_relevant_documents(ranking.type, ranking.score,
                                                          ranking.close)),
                     !.done = TRUE]
    /\ UNCHANGED << questionVars, unflushed, ing, report, hist, validation >>

\* the scored indexes: MaxScored chunks, any scores, at most one close pair
Rankings ==
    LET C == 1..MaxScored
    IN  { [type |-> t, score |-> s, close |-> cl, result |-> <<>>, done |-> FALSE] :
            t \in SearchTypes, s \in [C -> 1..MaxScore],
            cl \in {{}} \cup { {{q[1], q[2]}} : q \in { x \in C \X C : x[1] < x[2] } } }

\* SpecSearch: one search over a loaded index of MaxScored chunks
InitSearch ==
    /\ QuestionPathIdle
    /\ persisted = [i \in 1..MaxScored |-> i]
    /\ vector_store = TRUE
    /\ retriever = TRUE
    /\ unflushed = <<>>
    /\ ing = NoIngest
    /\ report = NoReport
    /\ hist = NoHist
    /\ validation = NoValidation(Corpus[1], TRUE)
    /\ ranking \in Rankings

NextSearch == ScoredSearch

SpecSearch == InitSearch /\ [][NextSearch]_vars

\* the chunks of a formatted result, in its order
ContentOf(docs) == [i \in 1..Len(docs) |-> docs[i].content]

\* the list is in non-increasing order of relevance
NonIncreasing(chunks, score) ==
    \A i, j \in 1..Len(chunks) : i < j => score[chunks[i]] >= score[chunks[j]]

Generated ==
    /\ pc = "returned"
    /\ searched = "returned"
    /\ found # <<>>
    /\ raised = ""

\* C23: when top_k is given, answer_question uses at most top_k retrieved
\* documents, from the front of the ranked result: for every top_k the
\* sources list has length min(top_k, number of retrieved documents),
\* sources[i] is the i-th ranked document, labelled "DOCUMENTO i" (counted
\* from one) in the prompt, and metadata.retrieved_documents is the length
\* of sources.
C23_TopKTruncation ==
    (Generated /\ top_k # NoTopK) =>
        /\ Len(result.sources) = Min(top_k, Len(found))
        /\ \A i \in 1..Len(result.sources) :
              /\ result.sources[i] = [file_name |-> found[i], source |-> found[i]]
              /\ Contexts(retrieved_docs)[i] = [label |-> i, file_name |-> found[i]]
        /\ Len(Contexts(retrieved_docs)) = Len(result.sources)
        /\ result.retrieved_documents = Len(result.sources)

\* C29: generation is never invoked with an empty context: for every
\* question and every top_k (0 and negative values included), whenever
\* answer_question calls the generation step the prompt holds at least one
\* retrieved document, and the sources list it returns is non-empty.
C29_NeverEmptyContext ==
    /\ pc \in {"wait", "info"} => Contexts(retrieved_docs) # <<>>
    /\ Generated => result.sources # <<>>

(***************************************************************************)
(* Properties of the generation request (Spec).                            *)
(***************************************************************************)
\* C24: the system prompt answer_question supplies is part of the
\* generation request: for both backend kinds, the request that
\* generate_response sends to the backend contains the system prompt in
\* addition to the rendered prompt.
C24_SystemPromptInjected ==
    \A w \in Workers :
        worker[w].backend # ""
            => /\ "prompt" \in worker[w].request
               /\ "system_prompt" \in worker[w].request

(***************************************************************************)
(* LLMManager.reload_settings, statement by statement. Its import of       *)
(* lines 148-151 binds names local to the call: the names of the           *)
(* llm_manager module that _load_openai_model and generate_response read   *)
(* (OPENAI_API_KEY, OPENAI_MODEL) keep the values of the first import.     *)
(***************************************************************************)
\* what reload_settings leaves alone
callVars ==
    << worker, result_queue, indexVars, pc, qn, question, top_k, retrieved_docs,
       searched, found, raised, answer, clock, result >>

\* the manager as reload_settings finds it
Manager == [model_type |-> model_type, current_model |-> current_model,
            model_info |-> model_info]

\* the backend a load_model call of the given kind tries to load: the
\* OpenAI client for the model name of the module, or the local model
Backend(kind) == [kind |-> kind, name |-> InfoOf(kind).name]

\* reload_settings, lines 144-155: the settings module is reloaded, with
\* MODEL_TYPE mt and OPENAI_MODEL om, and MODEL_TYPE is compared
ReloadBegin(mt, om) ==
    /\ reload.pc = "idle"
    /\ reload.n < MaxReloads
    /\ reload' = [NoReload EXCEPT !.pc = IF mt # model_type THEN "set_type" ELSE "check",
                                  !.MODEL_TYPE = mt, !.OPENAI_MODEL = om,
                                  !.n = reload.n + 1, !.before = Manager]
    /\ UNCHANGED << MODEL_TYPE, OPENAI_API_KEY, model_type, current_model, model_info,
                    callVars, ingestionVars >>

\* line 157: self.model_type = MODEL_TYPE
ReloadSetType ==
    /\ reload.pc = "set_type"
    /\ model_type' = reload.MODEL_TYPE
    /\ reload' = [reload EXCEPT !.pc = "unload"]
    /\ UNCHANGED << MODEL_TYPE, OPENAI_API_KEY, current_model, model_info,
                    callVars, ingestionVars >>

\* lines 160 and 172: self.current_model = None
ReloadUnload ==
    /\ reload.pc = "unload"
    /\ current_model' = "None"
    /\ reload' = [reload EXCEPT !.pc = IF reload.phase = 1 THEN "clear_info" ELSE "load",
                                !.unloaded = TRUE]
    /\ UNCHANGED << MODEL_TYPE, OPENAI_API_KEY, model_type, model_info,
                    callVars, ingestionVars >>

\* line 161: self.model_info = {}
ReloadClearInfo ==
    /\ reload.pc = "clear_info"
    /\ model_info' = EmptyInfo
    /\ reload' = [reload EXCEPT !.pc = "load"]
    /\ UNCHANGED << MODEL_TYPE, OPENAI_API_KEY, model_type, current_model,
                    callVars, ingestionVars >>

\* lines 164 and 173: self.load_model() dispatches on self.model_type
ReloadLoad ==
    /\ reload.pc = "load"
    /\ reload' = [reload EXCEPT !.pc = "_load", !.kind = load_model_kind("None"),
                                !.loads = Append(@, Backend(load_model_kind("None")))]
    /\ UNCHANGED << MODEL_TYPE, OPENAI_API_KEY, model_type, current_model, model_info,
                    callVars, ingestionVars >>

\* _load_openai_model / _load_local_model: the load succeeds and
\* current_model is assigned
ReloadLoadSucceeds ==
    /\ reload.pc = "_load"
    /\ "ok" \in LoadOutcomes(reload.kind)
    /\ current_model' = reload.kind
    /\ reload' = [reload EXCEPT !.pc = "set_info"]
    /\ UNCHANGED << MODEL_TYPE, OPENAI_API_KEY, model_type, model_info,
                    callVars, ingestionVars >>

\* where reload_settings goes on after its load_model call
AfterLoad == IF reload.phase = 1 THEN "check" ELSE "return"

\* _load_openai_model / _load_local_model: model_info is assigned, True is
\* returned
ReloadSetModelInfo ==
    /\ reload.pc = "set_info"
    /\ model_info' = InfoOf(reload.kind)
    /\ reload' = [reload EXCEPT !.pc = AfterLoad]
    /\ UNCHANGED << MODEL_TYPE, OPENAI_API_KEY, model_type, current_model,
                    callVars, ingestionVars >>

\* _load_openai_model / _load_local_model return False
ReloadLoadFails ==
    /\ reload.pc = "_load"
    /\ \E o \in LoadOutcomes(reload.kind) : o \notin {"ok", "hang"}
    /\ reload' = [reload EXCEPT !.pc = AfterLoad]
    /\ UNCHANGED << MODEL_TYPE, OPENAI_API_KEY, model_type, current_model, model_info,
                    callVars, ingestionVars >>

\* from_pretrained never returns
ReloadLoadHangs ==
    /\ reload.pc = "_load"
    /\ "hang" \in LoadOutcomes(reload.kind)
    /\ reload' = [reload EXCEPT !.pc = "hung"]
    /\ UNCHANGED << MODEL_TYPE, OPENAI_API_KEY, model_type, current_model, model_info,
                    callVars, ingestionVars >>

\* lines 167-170: a loaded OpenAI model whose name is not the reloaded
\* OPENAI_MODEL
NameChanged ==
    /\ current_model # "None"
    /\ model_info.type = "openai"
    /\ model_info.name # reload.OPENAI_MODEL

\* lines 167-170: the name of the loaded OpenAI model is compared
ReloadCheck ==
    /\ reload.pc = "check"
    /\ reload' = [reload EXCEPT !.pc = IF NameChanged THEN "unload" ELSE "return",
                                !.phase = 2]
    /\ UNCHANGED << MODEL_TYPE, OPENAI_API_KEY, model_type, current_model, model_info,
                    callVars, ingestionVars >>

\* reload_settings returns
ReloadReturn ==
    /\ reload.pc = "return"
    /\ reload' = [reload EXCEPT !.pc = "idle"]
    /\ UNCHANGED << MODEL_TYPE, OPENAI_API_KEY, model_type, current_model, model_info,
                    callVars, ingestionVars >>

ReloadStep ==
    \/ reload.pc = "idle" /\ \E mt \in ModelTypes : \E om \in OpenAIModels : ReloadBegin(mt, om)
    \/ ReloadSetType
    \/ ReloadUnload
    \/ ReloadClearInfo
    \/ ReloadLoad
    \/ ReloadLoadSucceeds
    \/ ReloadSetModelInfo
    \/ ReloadLoadFails
    \/ ReloadLoadHangs
    \/ ReloadCheck
    \/ ReloadReturn

\* SpecReload: MaxReloads reload_settings calls in a row, no question being
\* answered, on a manager with no model or with the model an earlier
\* question loaded
InitReload ==
    /\ MODEL_TYPE \in ModelTypes
    /\ OPENAI_API_KEY \in BOOLEAN
    /\ model_type = MODEL_TYPE
    /\ reload = NoReload
    /\ \/ current_model = "None" /\ model_info = EmptyInfo
       \/ \E kind \in {load_model_kind("None"), "local"} :
             /\ "ok" \in LoadOutcomes(kind)
             /\ current_model = kind
             /\ model_info = InfoOf(kind)
    /\ worker = [w \in Workers |-> Idle]
    /\ result_queue = [w \in Workers |-> <<>>]
    /\ NoIndex
    /\ pc = "idle"
    /\ qn = 0
    /\ question = <<>>
    /\ top_k = NoTopK
    /\ retrieved_docs = <<>>
    /\ searched = "no"
    /\ found = <<>>
    /\ raised = ""
    /\ answer = NoText
    /\ clock = 0
    /\ result = NoResult
    /\ Quiet

NextReload == ReloadStep

SpecReload == InitReload /\ [][NextReload]_vars

\* the last reload_settings call has returned
Reloaded == reload.pc = "idle" /\ reload.n > 0

\* the configured type is not the one the manager had
TypeChanged == reload.MODEL_TYPE # reload.before.model_type

\* the OpenAI model that was loaded is not the configured one
NameDiffers ==
    /\ reload.before.current_model # "None"
    /\ reload.before.model_info.type = "openai"
    /\ reload.before.model_info.name # reload.OPENAI_MODEL

\* the backend of the reloaded configuration
ConfiguredBackend ==
    LET kind == IF reload.MODEL_TYPE = "openai" THEN "openai" ELSE "local"
    IN  [kind |-> kind,
         name |-> IF kind = "openai" THEN reload.OPENAI_MODEL ELSE InfoOf(kind).name]

\* C25: after reload_settings returns, model_type is the configured
\* MODEL_TYPE; if the configured type changed, or the loaded OpenAI model
\* name differs from the configured one, the backend that was current is no
\* longer current and a load of the configured backend has been attempted;
\* if neither changed, current_model and model_info are left unchanged.
C25_ReloadFollowsSettings ==
    Reloaded =>
        /\ model_type = reload.MODEL_TYPE
        /\ (TypeChanged \/ NameDiffers)
              => /\ reload.before.current_model # "None" => reload.unloaded
                 /\ \E i \in 1..Len(reload.loads) : reload.loads[i] = ConfiguredBackend
        /\ ~(TypeChanged \/ NameDiffers)
              => /\ current_model = reload.before.current_model
                 /\ model_info = reload.before.model_info
                 /\ reload.loads = <<>>

(***************************************************************************)
(* SpecFresh: a process that started without an index ingests files, one   *)
(* path per call, and searches.                                            *)
(***************************************************************************)
\* document_retriever.search(query) is called on its own and returns or
\* raises
SearchCall ==
    /\ ing.pc = "idle"
    /\ \E o \in search :
          /\ vector_store' = o.vs
          /\ retriever' = o.ret
          /\ found' = o.docs
          /\ searched' = IF o.exc = "" THEN "returned" ELSE "raised"
    /\ UNCHANGED << llmVars, worker, result_queue, persisted, pc, qn, question, top_k,
                    retrieved_docs, raised, answer, clock, result, ingestionVars >>

NextFresh ==
    \/ ing.pc = "idle" /\ \E p \in Paths : IngestCall(<< p >>)
    \/ ProcessFile
    \/ ChunkFile
    \/ IndexChunks
    \/ SearchCall

SpecFresh == InitIngest /\ [][NextFresh]_vars

\* the retriever is still the empty one of the start of the process and
\* add_documents has created the index since
IndexCreatedSince == ~retriever /\ vector_store /\ hist.ok

\* C26: a retriever initialised while no index existed does not stay
\* empty: after an ingest_documents call whose add succeeded, the next
\* search obtains the vector store add_documents created and is served by a
\* retriever over it, never by the empty result for "no index" (an
\* exception of as_retriever apart, which leaves search).
C26_RetrieverSeesNewIndex ==
    /\ [](IndexCreatedSince
            => \A o \in search :
                  /\ o.lazy /\ o.vs
                  /\ o.exc = "" => (o.ret /\ o.retrieval # "none"))
    /\ [][(IndexCreatedSince /\ (searched' # searched \/ found' # found \/ retriever'))
            => /\ vector_store'
               /\ searched' = "returned" => retriever'
               /\ \A i \in 1..Len(found') :
                     \E j \in 1..Len(Collection) : found'[i] = Collection[j]]_vars

\* no index at the start, a first search found nothing; then one file was
\* ingested and the search returned its chunk
C26_Witness ==
    /\ hist.runs >= 1 /\ hist.ok
    /\ retriever /\ vector_store
    /\ searched = "returned"
    /\ found = << Chunk(1, 1) >>
    /\ persisted = << Chunk(1, 1) >>

(***************************************************************************)
(* SpecLive: the questions and worker threads of Spec, with reload_settings*)
(* called from another thread (a settings callback) at any moment.         *)
(***************************************************************************)
\* the last question and the last reload_settings call of a run, on a
\* manager with no model or with the model an earlier question loaded
InitLive ==
    /\ MODEL_TYPE \in ModelTypes
    /\ OPENAI_API_KEY \in BOOLEAN
    /\ model_type = MODEL_TYPE
    /\ reload = [NoReload EXCEPT !.n = MaxReloads - 1]
    /\ \/ current_model = "None" /\ model_info = EmptyInfo
       \/ \E kind \in {load_model_kind("None"), "local"} :
             /\ "ok" \in LoadOutcomes(kind)
             /\ current_model = kind
             /\ model_info = InfoOf(kind)
    /\ worker = [w \in Workers |-> Idle]
    /\ result_queue = [w \in Workers |-> <<>>]
    /\ persisted = <<1>>
    /\ vector_store = TRUE
    /\ retriever = TRUE
    /\ pc = "idle"
    /\ qn = MaxQuestions - 1
    /\ question = <<>>
    /\ top_k = NoTopK
    /\ retrieved_docs = <<>>
    /\ searched = "no"
    /\ found = <<>>
    /\ raised = ""
    /\ answer = NoText
    /\ clock = 0
    /\ result = NoResult
    /\ Quiet

NextLive == Next \/ ReloadStep

SpecLive == InitLive /\ [][NextLive]_vars

\* C27: under all interleavings of the worker threads (those abandoned
\* after a timeout included) with each other and with reload_settings,
\* whenever current_model is set, model_info describes that backend:
\* model_info.type is the kind of the object in current_model, so that
\* generate_response never calls a backend in the format of the other kind.
C27_InfoDescribesBackend ==
    /\ current_model # "None" => model_info.type = current_model
    /\ \A w \in Workers : worker[w].pc = "generate" => CallFits

(***************************************************************************)
(* Properties of concurrent questions (Spec).                              *)
(***************************************************************************)
\* the worker is inside load_model: in _load_openai_model or
\* _load_local_model, before or between its two assignments, or for ever
Loading(w) ==
    \/ worker[w].pc \in {"_load", "set_info"}
    \/ worker[w].pc = "hung" /\ worker[w].backend = ""

\* C28: at most one model load is in progress at any time: over any
\* sequence of questions, also when a question is asked after an earlier
\* one timed out while its worker was still loading the model, two workers
\* never execute load_model at the same time.
C28_OneLoadAtATime ==
    Cardinality({ w \in Workers : Loading(w) }) <= 1
====
